---- MODULE Spec2Model ----
(***************************************************************************)
(* PTY session manager of src-tauri/src/commands/pty.rs.                   *)
(*                                                                         *)
(* Caller threads run the four tauri commands spawn_pty, write_to_pty,     *)
(* resize_pty and kill_pty; every successful spawn starts one output pump  *)
(* thread and one thread waiting for the child.  The registry is           *)
(* PtyState.sessions, a HashMap behind one parking_lot Mutex; every        *)
(* session carries its own writer Mutex.                                   *)
(*                                                                         *)
(* Granularity.  A command that needs the sessions lock starts in the step *)
(* in which it gets the lock: until then it has touched nothing.  The      *)
(* steps of spawn_pty before the insert touch only its own locals and are  *)
(* one step.  write_all is one step per byte; flush, resize, every read    *)
(* and every emit are steps of their own.  A library call that can fail    *)
(* fails or succeeds nondeterministically.                                 *)
(*                                                                         *)
(* Ids.  Session ids are numbers; Uuid::new_v4 is a counter, that is, a    *)
(* generated id is taken never to repeat.  Callers pass ids that a spawn   *)
(* returned, or one id that no spawn generates.                            *)
(*                                                                         *)
(* known, inserted and removedBy record history and are read by no action  *)
(* except to choose the ids callers pass; lastRet holds the latest return. *)
(***************************************************************************)
EXTENDS Integers, Sequences, FiniteSets, TLC

\* ---------------------------------------------------------------- bounds
NumCallers == 2      \* caller threads invoking commands concurrently
MaxSpawns  == 2      \* spawn_pty calls over a run (ids generated)
MaxOps     == 3      \* commands started over a run
MaxReads   == 2      \* non-empty reads per pump

\* ------------------------------------------------------- program constants
InitRows == 24
InitCols == 80

Callers == 1..NumCallers
Ids     == 1..MaxSpawns
Bogus   == MaxSpawns + 1           \* an id string no spawn ever generates
ArgIds  == Ids \cup {Bogus}
NoId    == MaxSpawns + 2           \* no id: an idle caller, a unit result
Free    == {}                      \* the holders of an unlocked mutex
PumpTid(i) == NumCallers + i       \* thread id of the pump of session i

None == <<"None">>
Some(s) == <<"Some", s>>
\* command lines offered to spawn_pty: absent, empty, blank, a program with an
\* argument between stray blanks
Commands == {None, Some(<<>>), Some(<<" ", " ">>), Some(<<" ", "a", " ", "b">>)}
Sizes    == {<<40, 120>>}          \* geometries offered to resize_pty
WriteData == {<<1, 2>>}            \* byte strings offered to write_to_pty
Chunks   == {<<65, 255>>}          \* a read: an ASCII byte, a byte invalid in UTF-8
Replacement == 65533               \* U+FFFD

Ok(v)      == [tag |-> "Ok", val |-> v]
Err(m, v)  == [tag |-> m, val |-> v]
NoRet      == [tag |-> "none", val |-> NoId]
Unit       == NoId

\* str::split_whitespace: the maximal runs of non-blank characters
RECURSIVE SplitFrom(_, _, _)
SplitFrom(s, k, cur) ==
  IF k > Len(s)
    THEN IF cur = <<>> THEN <<>> ELSE <<cur>>
    ELSE IF s[k] = " "
           THEN IF cur = <<>> THEN SplitFrom(s, k + 1, <<>>)
                              ELSE <<cur>> \o SplitFrom(s, k + 1, <<>>)
           ELSE SplitFrom(s, k + 1, Append(cur, s[k]))
split_whitespace(s) == SplitFrom(s, 1, <<>>)

\* String::from_utf8_lossy on the bytes the model reads: every byte that is
\* not ASCII is an invalid sequence here and becomes U+FFFD
from_utf8_lossy(bs) == [k \in 1..Len(bs) |-> IF bs[k] < 128 THEN bs[k] ELSE Replacement]

VARIABLES
  sessions,    \* keys of PtyState.sessions
  regLock,     \* threads holding the sessions mutex, Free when unlocked
  writerLock,  \* per id: threads holding PtySession.writer's mutex
  ptySize,     \* per id: geometry of the PTY
  ptyIn,       \* per id: bytes that reached the PTY, with the writing thread and offset
  nextId,      \* number of ids generated by Uuid::new_v4
  child,       \* per id: state of the child process
  reaper,      \* per id: state of the thread that waits for the child
  pumpPc,      \* per id: position of the output pump thread
  readRes,     \* per id: result of the pump's pending match on reader.read
  readCount,   \* per id: non-empty reads so far
  emitted,     \* per id: events handed to app_handle.emit, in order
  pc,          \* per caller: position in the running command
  argId,       \* per caller: pty_id of the running command
  payload,     \* per caller: command / data / size argument of the running command
  pos,         \* per caller: bytes written so far by write_all
  lastRet,     \* the latest command that returned: command, arguments, result
  opCount,     \* commands started
  known,       \* ids returned by successful spawns
  inserted,    \* ids ever inserted into the registry
  removedBy    \* per id: which remove took the entry out, "kill" or "pump"

vars == <<sessions, regLock, writerLock, ptySize, ptyIn, nextId, child, reaper,
          pumpPc, readRes, readCount, emitted, pc, argId, payload, pos, lastRet,
          opCount, known, inserted, removedBy>>

sharedVars == <<sessions, regLock, writerLock, ptySize, ptyIn>>
procVars   == <<child, reaper>>
pumpVars   == <<pumpPc, readRes, readCount, emitted>>
callerVars == <<pc, argId, payload, pos, lastRet, opCount>>
histVars   == <<known, inserted, removedBy>>

NoCall == [op |-> "none", id |-> NoId, arg |-> <<>>, found |-> FALSE, ret |-> NoRet]

\* the state after PtyState::new(), with started commands counted started
Start(started) ==
  /\ sessions = {}
  /\ regLock = Free
  /\ writerLock = [i \in Ids |-> Free]
  /\ ptySize = [i \in Ids |-> <<0, 0>>]
  /\ ptyIn = [i \in Ids |-> <<>>]
  /\ nextId = 0
  /\ child = [i \in Ids |-> "none"]
  /\ reaper = [i \in Ids |-> "none"]
  /\ pumpPc = [i \in Ids |-> "none"]
  /\ readRes = [i \in Ids |-> <<>>]
  /\ readCount = [i \in Ids |-> 0]
  /\ emitted = [i \in Ids |-> <<>>]
  /\ pc = [c \in Callers |-> "idle"]
  /\ argId = [c \in Callers |-> NoId]
  /\ payload = [c \in Callers |-> <<>>]
  /\ pos = [c \in Callers |-> 0]
  /\ lastRet = NoCall
  /\ opCount = started
  /\ known = {}
  /\ inserted = {}
  /\ removedBy = [i \in Ids |-> "none"]

Init == Start(0)

\* an idle caller thread starts a command and goes on at label l
Begin(c, id, arg, l) ==
  /\ pc[c] = "idle"
  /\ opCount < MaxOps
  /\ opCount' = opCount + 1
  /\ pc' = [pc EXCEPT ![c] = l]
  /\ argId' = [argId EXCEPT ![c] = id]
  /\ payload' = [payload EXCEPT ![c] = arg]
  /\ UNCHANGED <<pos, lastRet>>

\* command o of caller c, called with (id, arg), returns r; its locals are gone
Return(c, o, id, arg, fnd, r) ==
  /\ pc' = [pc EXCEPT ![c] = "idle"]
  /\ argId' = [argId EXCEPT ![c] = NoId]
  /\ payload' = [payload EXCEPT ![c] = <<>>]
  /\ pos' = [pos EXCEPT ![c] = 0]
  /\ lastRet' = [op |-> o, id |-> id, arg |-> arg, found |-> fnd, ret |-> r]

\* a command that starts and returns within one step
Call(c, o, id, arg, fnd, r) ==
  /\ pc[c] = "idle"
  /\ opCount < MaxOps
  /\ opCount' = opCount + 1
  /\ Return(c, o, id, arg, fnd, r)

\* a step inside a command, to label l
Goto(c, l) ==
  /\ pc' = [pc EXCEPT ![c] = l]
  /\ UNCHANGED <<argId, payload, lastRet, opCount>>

\* ------------------------------------------------------------- spawn_pty
\* NewId that hands out the lowest id no live session uses
NewIdRecycled == CHOOSE i \in Ids : i \notin sessions /\ \A j \in Ids \ sessions : i <= j

\* NewId that numbers a session by the count of live sessions
NewIdLiveCount == Cardinality(sessions) + 1

\* Uuid::new_v4(): a version-4 UUID, taken to differ from all earlier ones
NewId == nextId + 1

\* the command has no whitespace-delimited token
EmptyCommand(cmd) == cmd # None /\ split_whitespace(cmd[2]) = <<>>

\* the steps of spawn_pty before the insert, in the order of the code; each
\* fallible call of the PTY library succeeds or fails as its flag says
SpawnOutcome(cmd, ptyOk, childOk, readerOk, writerOk) ==
  IF ~ptyOk THEN Err("Failed to open PTY", Unit)
  ELSE IF EmptyCommand(cmd) THEN Err("Empty command", Unit)
  ELSE IF ~childOk THEN Err("Failed to spawn command", Unit)
  ELSE IF ~readerOk THEN Err("Failed to clone reader", Unit)
  ELSE IF ~writerOk THEN Err("Failed to take writer", Unit)
  ELSE Ok(Unit)

\* spawn_command was reached and succeeded: a child process runs
ChildLaunched(cmd, ptyOk, childOk) == ptyOk /\ ~EmptyCommand(cmd) /\ childOk

\* SpawnBegin with the insert placed before take_writer: a failed take_writer
\* returns its error with the session already registered
SpawnBeginEarlyInsert(c) ==
  /\ nextId < MaxSpawns
  /\ nextId' = nextId + 1
  /\ \E cmd \in Commands, ptyOk, childOk, readerOk, writerOk \in BOOLEAN :
       LET r == SpawnOutcome(cmd, ptyOk, childOk, readerOk, writerOk) IN
       /\ IF r.tag = "Ok"
            THEN Begin(c, NewId, cmd, "s_insert")
            ELSE Call(c, "spawn", NewId, cmd, FALSE, r)
       /\ child' = IF ChildLaunched(cmd, ptyOk, childOk)
                     THEN [child EXCEPT ![NewId] = "running"] ELSE child
       /\ ptySize' = IF r.tag = "Ok"
                       THEN [ptySize EXCEPT ![NewId] = <<InitRows, InitCols>>] ELSE ptySize
       /\ sessions' = IF r.tag = "Failed to take writer" THEN sessions \cup {NewId} ELSE sessions
       /\ inserted' = IF r.tag = "Failed to take writer" THEN inserted \cup {NewId} ELSE inserted
  /\ UNCHANGED <<regLock, writerLock, ptyIn, reaper, pumpVars, known, removedBy>>

\* SpawnBegin with the pump thread started before the session is inserted
SpawnBeginStartsPump(c) ==
  /\ nextId < MaxSpawns
  /\ nextId' = nextId + 1
  /\ \E cmd \in Commands, ptyOk, childOk, readerOk, writerOk \in BOOLEAN :
       LET r == SpawnOutcome(cmd, ptyOk, childOk, readerOk, writerOk) IN
       /\ IF r.tag = "Ok"
            THEN Begin(c, NewId, cmd, "s_insert")
            ELSE Call(c, "spawn", NewId, cmd, FALSE, r)
       /\ child' = IF ChildLaunched(cmd, ptyOk, childOk)
                     THEN [child EXCEPT ![NewId] = "running"] ELSE child
       /\ ptySize' = IF r.tag = "Ok"
                       THEN [ptySize EXCEPT ![NewId] = <<InitRows, InitCols>>] ELSE ptySize
       /\ pumpPc' = IF r.tag = "Ok" THEN [pumpPc EXCEPT ![NewId] = "read"] ELSE pumpPc
  /\ UNCHANGED <<sessions, regLock, writerLock, ptyIn, reaper, readRes, readCount,
                 emitted, histVars>>

\* spawn_pty up to the insert: the id, the PTY, the command, the child and the
\* two handles; these steps touch nothing the other threads see, and an error
\* returns from here
SpawnBegin(c) ==
  /\ nextId < MaxSpawns
  /\ nextId' = nextId + 1
  /\ \E cmd \in Commands, ptyOk, childOk, readerOk, writerOk \in BOOLEAN :
       LET r == SpawnOutcome(cmd, ptyOk, childOk, readerOk, writerOk) IN
       /\ IF r.tag = "Ok"
            THEN Begin(c, NewId, cmd, "s_insert")
            ELSE Call(c, "spawn", NewId, cmd, FALSE, r)
       /\ child' = IF ChildLaunched(cmd, ptyOk, childOk)
                     THEN [child EXCEPT ![NewId] = "running"] ELSE child
       /\ ptySize' = IF r.tag = "Ok"
                       THEN [ptySize EXCEPT ![NewId] = <<InitRows, InitCols>>] ELSE ptySize
  /\ UNCHANGED <<sessions, regLock, writerLock, ptyIn, reaper, pumpVars, histVars>>

\* state.sessions.lock().insert(pty_id, session): one guarded statement
SpawnInsert(c) ==
  /\ pc[c] = "s_insert"
  /\ regLock = Free
  /\ sessions' = sessions \cup {argId[c]}
  /\ inserted' = inserted \cup {argId[c]}
  /\ Goto(c, "s_pump")
  /\ UNCHANGED <<regLock, writerLock, ptySize, ptyIn, nextId, procVars, pumpVars,
                 pos, known, removedBy>>

\* thread::spawn of the output pump
SpawnStartPump(c) ==
  /\ pc[c] = "s_pump"
  /\ pumpPc' = [pumpPc EXCEPT ![argId[c]] = "read"]
  /\ Goto(c, "s_reaper")
  /\ UNCHANGED <<sharedVars, nextId, procVars, readRes, readCount, emitted, pos, histVars>>

\* thread::spawn of the thread that waits for the child
SpawnStartReaper(c) ==
  /\ pc[c] = "s_reaper"
  /\ reaper' = [reaper EXCEPT ![argId[c]] = "waiting"]
  /\ Goto(c, "s_return")
  /\ UNCHANGED <<sharedVars, nextId, child, pumpVars, pos, histVars>>

\* Ok(pty_id)
SpawnReturn(c) ==
  /\ pc[c] = "s_return"
  /\ Return(c, "spawn", argId[c], payload[c], FALSE, Ok(argId[c]))
  /\ known' = known \cup {argId[c]}
  /\ UNCHANGED <<sharedVars, nextId, procVars, pumpVars, opCount, inserted, removedBy>>

\* ---------------------------------------------------------- write_to_pty
\* Lookup that answers from every session ever inserted
LookupStale(id) == id \in inserted

\* sessions.get(&pty_id) is Some
Lookup(id) == id \in sessions

\* the call, let sessions = state.sessions.lock() and sessions.get(&pty_id):
\* a call that has not got the lock yet has touched nothing.  The guard is
\* dropped on the error return
WriteBegin(c) ==
  /\ regLock = Free
  /\ \E id \in known \cup {Bogus}, d \in WriteData :
       IF Lookup(id)
         THEN Begin(c, id, d, "w_wlock") /\ regLock' = {c}
         ELSE Call(c, "write", id, d, FALSE, Err("PTY session not found", id))
              /\ UNCHANGED regLock
  /\ UNCHANGED <<sessions, writerLock, ptySize, ptyIn, nextId, procVars, pumpVars, histVars>>

\* WriteLockWriter with the sessions guard dropped after the lookup and the
\* writer used without its lock
WriteLockWriterUnlocked(c) ==
  /\ pc[c] = "w_wlock"
  /\ regLock' = regLock \ {c}
  /\ Goto(c, "w_write")
  /\ UNCHANGED <<sessions, writerLock, ptySize, ptyIn, nextId, procVars, pumpVars,
                 pos, histVars>>

\* let mut writer = session.writer.lock()
WriteLockWriter(c) ==
  /\ pc[c] = "w_wlock"
  /\ writerLock[argId[c]] = Free
  /\ writerLock' = [writerLock EXCEPT ![argId[c]] = {c}]
  /\ Goto(c, "w_write")
  /\ UNCHANGED <<sessions, regLock, ptySize, ptyIn, nextId, procVars, pumpVars,
                 pos, histVars>>

\* write_all: one more byte reaches the PTY, or the write fails and both
\* guards are dropped on the error return
WriteByte(c) ==
  /\ pc[c] = "w_write"
  /\ pos[c] < Len(payload[c])
  /\ \/ /\ ptyIn' = [ptyIn EXCEPT ![argId[c]] =
                       Append(@, [by |-> c, at |-> pos[c] + 1, byte |-> payload[c][pos[c] + 1]])]
        /\ pos' = [pos EXCEPT ![c] = @ + 1]
        /\ Goto(c, "w_write")
        /\ UNCHANGED <<regLock, writerLock>>
     \/ /\ Return(c, "write", argId[c], payload[c], TRUE, Err("Failed to write to PTY", Unit))
        /\ regLock' = regLock \ {c}
        /\ writerLock' = [writerLock EXCEPT ![argId[c]] = @ \ {c}]
        /\ UNCHANGED <<ptyIn, opCount>>
  /\ UNCHANGED <<sessions, ptySize, nextId, procVars, pumpVars, histVars>>

\* write_all returns Ok once every byte is written
WriteAllOk(c) ==
  /\ pc[c] = "w_write"
  /\ pos[c] = Len(payload[c])
  /\ Goto(c, "w_flush")
  /\ UNCHANGED <<sharedVars, nextId, procVars, pumpVars, pos, histVars>>

\* WriteFlush that returns with the sessions guard still held
WriteFlushKeepsGuard(c) ==
  /\ pc[c] = "w_flush"
  /\ \/ Return(c, "write", argId[c], payload[c], TRUE, Ok(Unit))
     \/ Return(c, "write", argId[c], payload[c], TRUE, Err("Failed to flush PTY", Unit))
  /\ writerLock' = [writerLock EXCEPT ![argId[c]] = @ \ {c}]
  /\ UNCHANGED <<sessions, regLock, ptySize, ptyIn, nextId, procVars, pumpVars, opCount,
                 histVars>>

\* writer.flush(), then Ok(()) or the flush error; both guards are dropped
WriteFlush(c) ==
  /\ pc[c] = "w_flush"
  /\ \/ Return(c, "write", argId[c], payload[c], TRUE, Ok(Unit))
     \/ Return(c, "write", argId[c], payload[c], TRUE, Err("Failed to flush PTY", Unit))
  /\ regLock' = regLock \ {c}
  /\ writerLock' = [writerLock EXCEPT ![argId[c]] = @ \ {c}]
  /\ UNCHANGED <<sessions, ptySize, ptyIn, nextId, procVars, pumpVars, opCount, histVars>>

\* ------------------------------------------------------------ resize_pty
\* ResizeBegin that drops the sessions guard right after the lookup
ResizeBeginUnlocked(c) ==
  /\ regLock = Free
  /\ \E id \in known \cup {Bogus}, sz \in Sizes :
       IF Lookup(id)
         THEN Begin(c, id, sz, "r_io")
         ELSE Call(c, "resize", id, sz, FALSE, Err("PTY session not found", id))
  /\ UNCHANGED <<sessions, regLock, writerLock, ptySize, ptyIn, nextId, procVars,
                 pumpVars, histVars>>

\* the call, let sessions = state.sessions.lock() and sessions.get(&pty_id)
ResizeBegin(c) ==
  /\ regLock = Free
  /\ \E id \in known \cup {Bogus}, sz \in Sizes :
       IF Lookup(id)
         THEN Begin(c, id, sz, "r_io") /\ regLock' = {c}
         ELSE Call(c, "resize", id, sz, FALSE, Err("PTY session not found", id))
              /\ UNCHANGED regLock
  /\ UNCHANGED <<sessions, writerLock, ptySize, ptyIn, nextId, procVars, pumpVars, histVars>>

\* ResizeIo that removes the session when the resize fails
ResizeIoDropsOnError(c) ==
  /\ pc[c] = "r_io"
  /\ \/ /\ ptySize' = [ptySize EXCEPT ![argId[c]] = payload[c]]
        /\ Return(c, "resize", argId[c], payload[c], TRUE, Ok(Unit))
        /\ UNCHANGED sessions
     \/ /\ Return(c, "resize", argId[c], payload[c], TRUE, Err("Failed to resize PTY", Unit))
        /\ sessions' = sessions \ {argId[c]}
        /\ UNCHANGED ptySize
  /\ regLock' = regLock \ {c}
  /\ UNCHANGED <<writerLock, ptyIn, nextId, procVars, pumpVars, opCount, histVars>>

\* session.pair.master.resize(rows, cols), then Ok(()) or the resize error
ResizeIo(c) ==
  /\ pc[c] = "r_io"
  /\ \/ /\ ptySize' = [ptySize EXCEPT ![argId[c]] = payload[c]]
        /\ Return(c, "resize", argId[c], payload[c], TRUE, Ok(Unit))
     \/ /\ Return(c, "resize", argId[c], payload[c], TRUE, Err("Failed to resize PTY", Unit))
        /\ UNCHANGED ptySize
  /\ regLock' = regLock \ {c}
  /\ UNCHANGED <<sessions, writerLock, ptyIn, nextId, procVars, pumpVars, opCount, histVars>>

\* -------------------------------------------------------------- kill_pty
\* KillPty that reports an absent id as an error, as write and resize do
KillPtyNotFound(c) ==
  /\ regLock = Free
  /\ \E id \in known \cup {Bogus} :
       /\ Call(c, "kill", id, <<>>, id \in sessions,
               IF id \in sessions THEN Ok(Unit) ELSE Err("PTY session not found", id))
       /\ sessions' = sessions \ {id}
       /\ removedBy' = IF id \in sessions THEN [removedBy EXCEPT ![id] = "kill"] ELSE removedBy
  /\ UNCHANGED <<regLock, writerLock, ptySize, ptyIn, nextId, procVars, pumpVars,
                 known, inserted>>

\* KillPty that also emits pty-exit for the session it removed
KillPtyEmitsExit(c) ==
  /\ regLock = Free
  /\ \E id \in known \cup {Bogus} :
       /\ Call(c, "kill", id, <<>>, id \in sessions, Ok(Unit))
       /\ sessions' = sessions \ {id}
       /\ removedBy' = IF id \in sessions THEN [removedBy EXCEPT ![id] = "kill"] ELSE removedBy
       /\ emitted' = IF id \in sessions
                       THEN [emitted EXCEPT ![id] = Append(@, [name |-> "pty-exit", pty_id |-> id,
                                                              seq |-> 0, data |-> <<>>, by |-> c])]
                       ELSE emitted
  /\ UNCHANGED <<regLock, writerLock, ptySize, ptyIn, nextId, procVars, pumpPc, readRes,
                 readCount, known, inserted>>

\* the whole of kill_pty, one critical section: lock, sessions.remove(&pty_id),
\* Ok(()), and the guard is dropped
KillPty(c) ==
  /\ regLock = Free
  /\ \E id \in known \cup {Bogus} :
       /\ Call(c, "kill", id, <<>>, id \in sessions, Ok(Unit))
       /\ sessions' = sessions \ {id}
       /\ removedBy' = IF id \in sessions THEN [removedBy EXCEPT ![id] = "kill"] ELSE removedBy
  /\ UNCHANGED <<regLock, writerLock, ptySize, ptyIn, nextId, procVars, pumpVars,
                 known, inserted>>

\* ------------------------------------------------- output pump of session i
OutputEvent(i, n, bytes) ==
  [name |-> "pty-output", pty_id |-> i, seq |-> n, data |-> from_utf8_lossy(bytes),
   by |-> PumpTid(i)]
ExitEvent(i, t) ==
  [name |-> "pty-exit", pty_id |-> i, seq |-> 0, data |-> <<>>, by |-> t]

\* PumpRead that takes the sessions lock before the read and keeps it
PumpReadHoldsLock(i) ==
  /\ pumpPc[i] = "read"
  /\ readCount[i] < MaxReads
  /\ regLock = Free
  /\ regLock' = {PumpTid(i)}
  /\ \E bs \in Chunks : readRes' = [readRes EXCEPT ![i] = <<"Ok", bs>>]
  /\ readCount' = [readCount EXCEPT ![i] = @ + 1]
  /\ pumpPc' = [pumpPc EXCEPT ![i] = "emit"]
  /\ UNCHANGED <<sessions, writerLock, ptySize, ptyIn, nextId, procVars, emitted,
                 callerVars, histVars>>

\* reader.read(&mut buf) returns Ok(n) with n > 0
PumpRead(i) ==
  /\ pumpPc[i] = "read"
  /\ readCount[i] < MaxReads
  /\ \E bs \in Chunks : readRes' = [readRes EXCEPT ![i] = <<"Ok", bs>>]
  /\ readCount' = [readCount EXCEPT ![i] = @ + 1]
  /\ pumpPc' = [pumpPc EXCEPT ![i] = "emit"]
  /\ UNCHANGED <<sharedVars, nextId, procVars, emitted, callerVars, histVars>>

\* PumpReadEnd whose Err arm leaves the loop past the remove
PumpReadEndErrSkipsRemove(i) ==
  /\ pumpPc[i] = "read"
  /\ \E r \in {<<"Ok", 0>>, <<"Err">>} :
       pumpPc' = [pumpPc EXCEPT ![i] = IF r = <<"Ok", 0>> THEN "cleanup" ELSE "exit"]
  /\ UNCHANGED <<sharedVars, nextId, procVars, readRes, readCount, emitted, callerVars, histVars>>

\* reader.read(&mut buf) returns Ok(0) or Err(_): break
PumpReadEnd(i) ==
  /\ pumpPc[i] = "read"
  /\ \E r \in {<<"Ok", 0>>, <<"Err">>} :
       pumpPc' = [pumpPc EXCEPT ![i] = IF r = <<"Ok", 0>> THEN "cleanup" ELSE "cleanup"]
  /\ UNCHANGED <<sharedVars, nextId, procVars, readRes, readCount, emitted, callerVars, histVars>>

\* PumpEmit that decodes with from_utf8 and skips a chunk that is not valid
\* UTF-8
PumpEmitStrictUtf8(i) ==
  /\ pumpPc[i] = "emit"
  /\ emitted' = IF \E k \in 1..Len(readRes[i][2]) : readRes[i][2][k] > 127
                  THEN emitted
                  ELSE [emitted EXCEPT ![i] =
                          Append(@, OutputEvent(i, readCount[i], readRes[i][2]))]
  /\ readRes' = [readRes EXCEPT ![i] = <<>>]
  /\ pumpPc' = [pumpPc EXCEPT ![i] = "read"]
  /\ UNCHANGED <<sharedVars, nextId, procVars, readCount, callerVars, histVars>>

\* app_handle.emit("pty-output", PtyOutput { pty_id, data })
PumpEmit(i) ==
  /\ pumpPc[i] = "emit"
  /\ emitted' = [emitted EXCEPT ![i] = Append(@, OutputEvent(i, readCount[i], readRes[i][2]))]
  /\ readRes' = [readRes EXCEPT ![i] = <<>>]
  /\ pumpPc' = [pumpPc EXCEPT ![i] = "read"]
  /\ UNCHANGED <<sharedVars, nextId, procVars, readCount, callerVars, histVars>>

\* PumpCleanup that empties the map instead of removing its own key
PumpCleanupClears(i) ==
  /\ pumpPc[i] = "cleanup"
  /\ regLock = Free
  /\ sessions' = {}
  /\ removedBy' = IF i \in sessions THEN [removedBy EXCEPT ![i] = "pump"] ELSE removedBy
  /\ pumpPc' = [pumpPc EXCEPT ![i] = "exit"]
  /\ UNCHANGED <<regLock, writerLock, ptySize, ptyIn, nextId, procVars, readRes,
                 readCount, emitted, callerVars, known, inserted>>

\* PumpCleanup that takes the lock and forgets the remove
PumpCleanupNoRemove(i) ==
  /\ pumpPc[i] = "cleanup"
  /\ regLock = Free
  /\ pumpPc' = [pumpPc EXCEPT ![i] = "exit"]
  /\ UNCHANGED <<sharedVars, nextId, procVars, readRes, readCount, emitted, callerVars,
                 histVars>>

\* sessions_clone.lock().remove(&pty_id_clone): one guarded statement
PumpCleanup(i) ==
  /\ pumpPc[i] = "cleanup"
  /\ regLock = Free
  /\ sessions' = sessions \ {i}
  /\ removedBy' = IF i \in sessions THEN [removedBy EXCEPT ![i] = "pump"] ELSE removedBy
  /\ pumpPc' = [pumpPc EXCEPT ![i] = "exit"]
  /\ UNCHANGED <<regLock, writerLock, ptySize, ptyIn, nextId, procVars, readRes,
                 readCount, emitted, callerVars, known, inserted>>

\* app_handle.emit("pty-exit", pty_id_clone); the thread ends
PumpEmitExit(i) ==
  /\ pumpPc[i] = "exit"
  /\ emitted' = [emitted EXCEPT ![i] = Append(@, ExitEvent(i, PumpTid(i)))]
  /\ pumpPc' = [pumpPc EXCEPT ![i] = "done"]
  /\ UNCHANGED <<sharedVars, nextId, procVars, readRes, readCount, callerVars, histVars>>

\* ------------------------------------------------ child process and waiter
\* child.wait() returns in the waiting thread: the child has terminated and
\* is reaped
ReaperWait(i) ==
  /\ reaper[i] = "waiting"
  /\ child[i] = "running"
  /\ reaper' = [reaper EXCEPT ![i] = "done"]
  /\ child' = [child EXCEPT ![i] = "reaped"]
  /\ UNCHANGED <<sharedVars, nextId, pumpVars, callerVars, histVars>>

\* ------------------------------------------------------------------ system
Next ==
  \/ \E c \in Callers : SpawnBegin(c)
  \/ \E c \in Callers : SpawnInsert(c)
  \/ \E c \in Callers : SpawnStartPump(c)
  \/ \E c \in Callers : SpawnStartReaper(c)
  \/ \E c \in Callers : SpawnReturn(c)
  \/ \E c \in Callers : WriteBegin(c)
  \/ \E c \in Callers : WriteLockWriter(c)
  \/ \E c \in Callers : WriteByte(c)
  \/ \E c \in Callers : WriteAllOk(c)
  \/ \E c \in Callers : WriteFlush(c)
  \/ \E c \in Callers : ResizeBegin(c)
  \/ \E c \in Callers : ResizeIo(c)
  \/ \E c \in Callers : KillPty(c)
  \/ \E i \in Ids : PumpRead(i)
  \/ \E i \in Ids : PumpReadEnd(i)
  \/ \E i \in Ids : PumpEmit(i)
  \/ \E i \in Ids : PumpCleanup(i)
  \/ \E i \in Ids : PumpEmitExit(i)
  \/ \E i \in Ids : ReaperWait(i)

Spec == Init /\ [][Next]_vars

\* Threads are scheduled by the operating system and keep running; a call into
\* the PTY library returns; parking_lot's mutex is eventually fair, so a thread
\* that keeps asking for the sessions lock gets it
Fairness ==
  /\ \A c \in Callers :
       /\ WF_vars(WriteLockWriter(c))
       /\ WF_vars(WriteByte(c))
       /\ WF_vars(WriteAllOk(c))
       /\ WF_vars(WriteFlush(c))
       /\ WF_vars(ResizeIo(c))
       /\ SF_vars(SpawnInsert(c))
       /\ WF_vars(SpawnStartPump(c))
       /\ WF_vars(SpawnStartReaper(c))
       /\ WF_vars(SpawnReturn(c))
  /\ \A i \in Ids :
       /\ WF_vars(PumpEmit(i))
       /\ SF_vars(PumpCleanup(i))
       /\ WF_vars(PumpEmitExit(i))

\* the fair behaviours, explored with one command fewer
FairInit == Start(1)
FairSpec == FairInit /\ [][Next]_vars /\ Fairness

TypeOK ==
  /\ sessions \subseteq Ids
  /\ regLock \subseteq Callers
  /\ Cardinality(regLock) <= 1
  /\ \A i \in Ids : writerLock[i] \subseteq regLock
  /\ nextId \in 0..MaxSpawns
  /\ opCount \in 0..MaxOps
  /\ known \subseteq inserted
  /\ sessions \subseteq inserted

\* --------------------------------------------------------------- properties
ExitCount(i) == Cardinality({k \in 1..Len(emitted[i]) : emitted[i][k].name = "pty-exit"})

\* C1: a session whose pump has seen the stream end (read returned Ok(0) or
\* Err) and that no kill removed is eventually out of the registry with
\* exactly one pty-exit event emitted for it, and stays so.
C1_NaturalExitOnce ==
  \A i \in Ids :
    (pumpPc[i] = "cleanup" /\ removedBy[i] # "kill")
      ~> [](i \notin sessions /\ ExitCount(i) = 1)

C1_Witness ==
  \E i \in Ids : /\ pumpPc[i] = "done"
                 /\ removedBy[i] = "pump"
                 /\ i \notin sessions
                 /\ ExitCount(i) = 1

\* C2: at most one pty-exit event exists per session id, every pty-exit event
\* of a session was emitted by the pump thread of that session, and none by a
\* caller thread running kill_pty.
C2_ExitOnlyByPump ==
  \A i \in Ids :
    /\ ExitCount(i) <= 1
    /\ \A k \in 1..Len(emitted[i]) :
         emitted[i][k].name = "pty-exit" =>
           /\ emitted[i][k].by = PumpTid(i)
           /\ emitted[i][k].pty_id = i
           /\ pumpPc[i] = "done"

\* a kill removed the session while its pump was running, and the pump has
\* since emitted its one exit event
C2_Witness ==
  \E i \in Ids : /\ removedBy[i] = "kill"
                 /\ pumpPc[i] = "done"
                 /\ ExitCount(i) = 1

\* C3: the bytes that reach a session's PTY are whole calls' bytes one call
\* after the other: a byte at offset k > 1 of a call directly follows the
\* byte at offset k - 1 written by the same thread, and no two threads are
\* inside the write-and-flush sequence of the same session at once.
WriteIo == {"w_write", "w_flush"}

C3_WritesNeverInterleave ==
  /\ \A i \in Ids : \A k \in 1..Len(ptyIn[i]) :
       ptyIn[i][k].at > 1 =>
         /\ k > 1
         /\ ptyIn[i][k - 1].by = ptyIn[i][k].by
         /\ ptyIn[i][k - 1].at = ptyIn[i][k].at - 1
  /\ \A c, d \in Callers :
       (c # d /\ pc[c] \in WriteIo /\ pc[d] \in WriteIo) => argId[c] # argId[d]
  /\ (lastRet.op = "write" /\ lastRet.ret = Ok(Unit)) =>
       \E k \in 0..Len(ptyIn[lastRet.id]) - Len(lastRet.arg) :
         \A j \in 1..Len(lastRet.arg) :
           /\ ptyIn[lastRet.id][k + j].byte = lastRet.arg[j]
           /\ ptyIn[lastRet.id][k + j].at = j

\* two threads have each written a whole call to the same session
C3_Witness ==
  \E i \in Ids : \E k, l \in 1..Len(ptyIn[i]) :
    /\ ptyIn[i][k].by # ptyIn[i][l].by
    /\ ptyIn[i][k].at = 2
    /\ ptyIn[i][l].at = 2

\* C4: a spawn whose command is given and has no token returns the
\* "Empty command" error whatever else happens, registers nothing, launches
\* no child and starts neither thread.
C4_EmptyCommandIsInvalidInput ==
  (lastRet.op = "spawn" /\ EmptyCommand(lastRet.arg)) =>
    /\ lastRet.ret = Err("Empty command", Unit)
    /\ lastRet.id \notin inserted
    /\ child[lastRet.id] = "none"
    /\ pumpPc[lastRet.id] = "none"
    /\ reaper[lastRet.id] = "none"

\* caller c starts write_to_pty or resize_pty on id in this step
IoCallStarts(c, id) ==
  /\ pc[c] = "idle"
  /\ opCount' = opCount + 1
  /\ \/ pc'[c] \in {"w_wlock", "w_write", "w_flush", "r_io"} /\ argId'[c] = id
     \/ /\ \A d \in Callers : pc'[d] = pc[d]
        /\ lastRet'.op \in {"write", "resize"}
        /\ lastRet'.id = id

\* C5: a write or resize that starts on an id the registry does not hold
\* returns the not-found error naming that id within the lookup, does no
\* write, flush or resize, and leaves the registry and both locks as they were.
C5_AbsentIdIsNotFound ==
  [][\A c \in Callers, id \in ArgIds :
       (IoCallStarts(c, id) /\ id \notin sessions) =>
         /\ pc'[c] = "idle"
         /\ lastRet'.ret = Err("PTY session not found", id)
         /\ ~lastRet'.found
         /\ UNCHANGED <<sessions, ptyIn, ptySize, regLock, writerLock>>]_vars

\* a write on an id that was registered and has been removed was refused
C5_Witness ==
  /\ lastRet.op = "write"
  /\ lastRet.ret = Err("PTY session not found", lastRet.id)
  /\ lastRet.id \in inserted \ sessions

\* kill_pty runs in this step
KillReturns == opCount' = opCount + 1 /\ lastRet'.op = "kill"

\* C6: kill returns Ok for every id; after it the id is absent, nothing else
\* is removed, and a kill of an absent id leaves the registry as it was.
C6_KillIdempotent ==
  [][KillReturns =>
       /\ lastRet'.ret = Ok(Unit)
       /\ sessions' = sessions \ {lastRet'.id}
       /\ lastRet'.id \notin sessions => sessions' = sessions]_vars

\* a second kill of an id that a first kill removed has returned Ok
C6_Witness ==
  /\ lastRet.op = "kill"
  /\ lastRet.ret = Ok(Unit)
  /\ ~lastRet.found
  /\ lastRet.id \in Ids
  /\ removedBy[lastRet.id] = "kill"

\* C7: an id that was registered and is no longer stays absent in the next
\* state, and a write or resize that starts on it is refused as not found.
C7_RemovedStaysAbsent ==
  [][\A i \in Ids :
       (i \in inserted /\ i \notin sessions) =>
         /\ i \notin sessions'
         /\ \A c \in Callers :
              IoCallStarts(c, i) => lastRet'.ret = Err("PTY session not found", i)]_vars

\* an id was killed, a later spawn has registered its session, and the killed
\* id is still absent
C7_Witness ==
  \E i, j \in Ids : /\ removedBy[i] = "kill"
                    /\ i \notin sessions
                    /\ j > i
                    /\ j \in sessions

SpawnPcs == {"s_insert", "s_pump", "s_reaper", "s_return"}

\* C8: the id of a spawn in progress differs from every id a spawn returned
\* and from the id of every other spawn in progress, and is not in the
\* registry when the insert is about to run.
C8_FreshIds ==
  \A c \in Callers :
    pc[c] \in SpawnPcs =>
      /\ argId[c] \in Ids
      /\ argId[c] \notin known
      /\ pc[c] = "s_insert" => argId[c] \notin inserted
      /\ \A d \in Callers \ {c} : pc[d] \in SpawnPcs => argId[d] # argId[c]

\* two spawns run at once: one has inserted and is about to return, the other
\* is about to insert
C8_Witness ==
  \E c, d \in Callers : c # d /\ pc[c] = "s_return" /\ pc[d] = "s_insert"

\* C9: after a spawn returned an error, the id it had generated is not and
\* never was in the registry, has no pump, and no event carries it.
C9_FailedSpawnLeavesNothing ==
  (lastRet.op = "spawn" /\ lastRet.ret.tag # "Ok") =>
    /\ lastRet.id \notin sessions
    /\ lastRet.id \notin inserted
    /\ pumpPc[lastRet.id] = "none"
    /\ emitted[lastRet.id] = <<>>

\* a spawn failed after its child was launched
C9_Witness ==
  /\ lastRet.op = "spawn"
  /\ lastRet.ret.tag = "Failed to take writer"
  /\ child[lastRet.id] = "running"
  /\ sessions # {}

\* C10: no thread holds the sessions lock while it writes, flushes or resizes.
C10_NoIoUnderRegistryLock ==
  \A c \in Callers : pc[c] \in {"w_write", "w_flush", "r_io"} => c \notin regLock

\* the pump of session i is inside reader.read: the reader is the clone the
\* pump thread owns, not a field of the PtySession that kill_pty drops
PendingRead(i) == pumpPc[i] = "read"

\* C11: once kill_pty has removed a live session, the pump of that session
\* eventually leaves its read loop and emits the pty-exit event of the id.
C11_KillUnblocksPump ==
  \A i \in Ids :
    (removedBy[i] = "kill" /\ PendingRead(i)) ~> (pumpPc[i] = "done" /\ ExitCount(i) = 1)

\* the pump of session i runs its sessions.remove in this step
PumpRemoves(i) == pumpPc[i] = "cleanup" /\ pumpPc'[i] = "exit"

\* kill_pty(i) runs its sessions.remove in this step
KillRemoves(i) == KillReturns /\ lastRet'.id = i

\* C12: a session leaves the registry in a step of exactly one of its two
\* removers, kill_pty of its id or its own pump, and that step removes
\* nothing else; once it has left it never leaves again, and the remove of
\* the other remover, and any later remove of the id, changes nothing.
C12_RemovedExactlyOnce ==
  [][\A i \in Ids :
       /\ (i \in sessions /\ i \notin sessions') =>
            /\ sessions' = sessions \ {i}
            /\ PumpRemoves(i) # KillRemoves(i)
       /\ (i \in inserted /\ i \notin sessions) =>
            /\ i \notin sessions'
            /\ (PumpRemoves(i) \/ KillRemoves(i)) => sessions' = sessions]_vars

\* the pump removed the session and a later kill of the same id found nothing
C12_Witness ==
  /\ lastRet.op = "kill"
  /\ ~lastRet.found
  /\ lastRet.id \in Ids
  /\ removedBy[lastRet.id] = "pump"

\* number of pty-output events of session i
OutputCount(i) == Cardinality({k \in 1..Len(emitted[i]) : emitted[i][k].name = "pty-output"})

\* C13: the k-th event of a session is the output event of the k-th chunk
\* read (decoded lossily), every chunk read has been emitted when the pump is
\* back in read, and the pty-exit event is the last event of its id.
C13_OutputInReadOrder ==
  \A i \in Ids :
    /\ \A k \in 1..Len(emitted[i]) :
         /\ emitted[i][k].name = "pty-output" =>
              /\ emitted[i][k].seq = k
              /\ \E bs \in Chunks : emitted[i][k].data = from_utf8_lossy(bs)
         /\ emitted[i][k].name = "pty-exit" => k = Len(emitted[i])
    /\ OutputCount(i) = IF pumpPc[i] = "emit" THEN readCount[i] - 1 ELSE readCount[i]
    /\ pumpPc[i] = "emit" => readRes[i] # <<>>

\* two chunks were read and emitted in order, then the exit event
C13_Witness ==
  \E i \in Ids : /\ Len(emitted[i]) = 3
                 /\ emitted[i][1].seq = 1
                 /\ emitted[i][2].seq = 2
                 /\ emitted[i][3].name = "pty-exit"

\* the spawn_pty call that launched child i has not yet reached the
\* thread::spawn of the waiting thread
BeforeReaper(i) ==
  \E c \in Callers : pc[c] \in {"s_insert", "s_pump", "s_reaper"} /\ argId[c] = i

\* C14: every child that was launched has its waiting thread as soon as the
\* spawn call that launched it is past the point where it starts that thread
\* or has returned, also when the call returned an error.
C14_EveryChildHasReaper ==
  \A i \in Ids : (child[i] # "none" /\ ~BeforeReaper(i)) => reaper[i] # "none"

\* C15: a successful spawn inserts, then starts the pump, then starts the
\* waiting thread, then returns the id: the pump of an id exists only once the
\* id was inserted, the waiting thread only once the pump exists, the id is
\* returned only once the waiting thread exists; every event of an id and the
\* pump's remove of it come after the insert.
C15_SpawnOrder ==
  /\ \A i \in Ids :
       /\ pumpPc[i] # "none" => i \in inserted
       /\ reaper[i] # "none" => pumpPc[i] # "none"
       /\ i \in known => reaper[i] # "none"
       /\ emitted[i] # <<>> => i \in inserted
       /\ pumpPc[i] \in {"exit", "done"} => i \in inserted
  /\ \A c \in Callers :
       /\ pc[c] = "s_insert" => argId[c] \notin inserted /\ pumpPc[argId[c]] = "none"
       /\ pc[c] = "s_pump" => argId[c] \in inserted /\ pumpPc[argId[c]] = "none"
       /\ pc[c] = "s_reaper" => pumpPc[argId[c]] # "none" /\ reaper[argId[c]] = "none"
       /\ pc[c] = "s_return" => reaper[argId[c]] # "none" /\ argId[c] \notin known

\* the pump of a session has already emitted output while the spawn call has
\* not yet returned the id
C15_Witness ==
  \E c \in Callers : /\ pc[c] = "s_return"
                     /\ emitted[argId[c]] # <<>>
                     /\ argId[c] \in sessions

\* C16: a pump that left its loop, on a zero-length read or on a read error
\* alike, removes its id before it emits pty-exit: while the pump is at the
\* remove no exit event exists, and in every state where an exit event of an
\* id exists, or its pump is past the remove, the id is not in the registry.
C16_ExitAfterRemove ==
  \A i \in Ids :
    /\ pumpPc[i] \in {"read", "emit", "cleanup"} => ExitCount(i) = 0
    /\ pumpPc[i] \in {"exit", "done"} => i \notin sessions
    /\ ExitCount(i) >= 1 => i \notin sessions

\* a pump removed its own session and emitted its exit event while another
\* session stays registered
C16_Witness ==
  \E i \in Ids : /\ ExitCount(i) = 1
                 /\ removedBy[i] = "pump"
                 /\ sessions # {}

\* the threads that hold the sessions lock or a writer lock
LockHolders == regLock \cup UNION {writerLock[i] : i \in Ids}

\* the pump of session i is inside its loop: blocked in read or emitting
PumpInLoop(i) == pumpPc[i] \in {"read", "emit"}

\* C17: a pump inside its loop holds neither the sessions lock nor a writer
\* lock, and whatever the pumps do, a caller is held up only by a lock that
\* another caller holds: with no caller holding the sessions lock every
\* command can start and a spawn can insert, and a write gets the writer lock
\* unless a caller holds it.
C17_PumpLoopHoldsNoLock ==
  /\ \A i \in Ids : PumpInLoop(i) => PumpTid(i) \notin LockHolders
  /\ \A c \in Callers :
       /\ (regLock \cap Callers = {} /\ pc[c] = "s_insert") => ENABLED SpawnInsert(c)
       /\ (regLock \cap Callers = {} /\ pc[c] = "idle" /\ opCount < MaxOps) =>
            /\ ENABLED WriteBegin(c)
            /\ ENABLED ResizeBegin(c)
            /\ ENABLED KillPty(c)
            /\ nextId < MaxSpawns => ENABLED SpawnBegin(c)
       /\ (pc[c] = "w_wlock" /\ writerLock[argId[c]] \cap Callers = {}) =>
            ENABLED WriteLockWriter(c)
       /\ pc[c] \in {"w_write", "w_flush"} => ENABLED (WriteByte(c) \/ WriteAllOk(c) \/ WriteFlush(c))
       /\ pc[c] = "r_io" => ENABLED ResizeIo(c)

\* a resize is in progress while the pump of every session is blocked in read
C17_Witness ==
  \E c \in Callers : /\ pc[c] = "r_io"
                     /\ \A i \in Ids : pumpPc[i] = "read"

\* the labels at which write_to_pty and resize_pty use the session they
\* looked up
SessionInUse == {"w_wlock", "w_write", "w_flush", "r_io"}

\* C18: from the lookup to the return of a write or resize, the id of the
\* session being written, flushed or resized is in the registry.
C18_IoOnlyOnRegistered ==
  \A c \in Callers : pc[c] \in SessionInUse => argId[c] \in sessions

\* a resize is in progress on a session whose pump has left its loop and
\* waits to remove it
C18_Witness ==
  \E c \in Callers : /\ pc[c] = "r_io"
                     /\ pumpPc[argId[c]] = "cleanup"

\* C19: a writer lock is held only by the thread that holds the sessions
\* lock, a thread that asks for the sessions lock holds no writer lock, and
\* under fair scheduling every command in progress returns and every pump
\* that left its loop finishes its cleanup.
C19_DeadlockFree ==
  /\ [](\A i \in Ids : writerLock[i] \subseteq regLock)
  /\ [](\A c \in Callers : pc[c] \in {"idle", "s_insert"} => c \notin LockHolders)
  /\ \A c \in Callers : (pc[c] # "idle") ~> (pc[c] = "idle")
  /\ \A i \in Ids : (pumpPc[i] = "cleanup") ~> (pumpPc[i] = "done")

\* a write holds both locks while the pump of the same session waits for the
\* sessions lock
C19_Witness ==
  \E c \in Callers : /\ pc[c] = "w_write"
                     /\ writerLock[argId[c]] = {c}
                     /\ pumpPc[argId[c]] = "cleanup"

\* a step of write_to_pty or resize_pty by caller c
IoStep(c) ==
  \/ pc[c] \in SessionInUse /\ pc'[c] # pc[c]
  \/ pc[c] \in {"w_write"} /\ pos'[c] # pos[c]
  \/ \E id \in ArgIds : IoCallStarts(c, id)

\* C20: the registry changes only when a spawn inserts the id it generated,
\* which was never registered before, or when kill_pty of an id or the pump
\* of an id removes that one id; every other session stays; no step of a
\* write or resize, failed or not, changes the registry.
C20_RegistryFrame ==
  [][/\ sessions' # sessions =>
          \/ \E c \in Callers : /\ pc[c] = "s_insert"
                                /\ pc'[c] = "s_pump"
                                /\ argId[c] \notin inserted
                                /\ sessions' = sessions \cup {argId[c]}
          \/ \E i \in sessions : /\ sessions' = sessions \ {i}
                                 /\ KillRemoves(i) \/ PumpRemoves(i)
     /\ \A c \in Callers : IoStep(c) => sessions' = sessions]_vars

\* a resize failed on one of two registered sessions and both are still
\* registered
C20_Witness ==
  /\ lastRet.op = "resize"
  /\ lastRet.ret = Err("Failed to resize PTY", Unit)
  /\ lastRet.id \in sessions
  /\ Cardinality(sessions) = 2

====
